---- MODULE Spec2Model ----
(***************************************************************************)
(* idemixgen (src/common/tools/idemixgen/idemixgen.go): the command line   *)
(* tool that generates the issuer (CA) key files and the default signer    *)
(* config of an Identity Mixer MSP.                                        *)
(*                                                                         *)
(* The state is the part of the file system under the working directory    *)
(* that the tool touches, the process umask, and the position and the      *)
(* locals of the one process run in progress.  Every statement of main     *)
(* that calls out (a generator, os.Stat, os.Mkdir, ioutil.ReadFile,        *)
(* ioutil.WriteFile, proto.Unmarshal) is one action; handleError ends the  *)
(* run with exit status 1 at the statement that reported the error.        *)
(***************************************************************************)
EXTENDS Integers, Sequences, FiniteSets, TLC

(***************************************************************************)
(* Bounds of the model.                                                    *)
(***************************************************************************)
\* number of distinct issuer keys the external generator can return
NumKeys == 2
\* number of distinct --org-unit labels (label 0 is the empty default)
NumOrgUnits == 2

(***************************************************************************)
(* Paths.  A path is the sequence of its components; filepath.Join is      *)
(* concatenation.                                                          *)
(***************************************************************************)
IdemixDirIssuer == <<"ca">>
IdemixConfigIssuerSecretKey == <<"IssuerSecretKey">>
\* constants of package msp, which is not part of the sources at hand:
\* the layout is the documented one (msp/IssuerPublicKey, msp/signer/SignerConfig)
IdemixConfigDirMsp == <<"msp">>
IdemixConfigDirUser == <<"msp", "signer">>
IdemixConfigFileIssuerPublicKey == <<"IssuerPublicKey">>
IdemixConfigFileSigner == <<"SignerConfig">>

Join(a, b) == a \o b

PathIssuerSecretKey == Join(IdemixDirIssuer, IdemixConfigIssuerSecretKey)
PathIssuerPublicKey == Join(IdemixDirIssuer, IdemixConfigFileIssuerPublicKey)
PathMspIssuerPublicKey == Join(IdemixConfigDirMsp, IdemixConfigFileIssuerPublicKey)
PathSignerConfig == Join(IdemixConfigDirUser, IdemixConfigFileSigner)

Paths ==
    { IdemixDirIssuer, PathIssuerSecretKey, PathIssuerPublicKey,
      IdemixConfigDirMsp, PathMspIssuerPublicKey,
      IdemixConfigDirUser, PathSignerConfig }

Parent(p) == SubSeq(p, 1, Len(p) - 1)

(***************************************************************************)
(* Permission bits.                                                        *)
(***************************************************************************)
RECURSIVE BitAnd(_, _)
BitAnd(a, b) ==
    IF a = 0 \/ b = 0 THEN 0
    ELSE (a % 2) * (b % 2) + 2 * BitAnd(a \div 2, b \div 2)

AllPermBits == 7 * 64 + 7 * 8 + 7

\* the mode a new entry gets: the requested mode with the umask bits cleared
Masked(perm, um) == BitAnd(perm, AllPermBits - um)

\* faulty variant: files are requested with mode 0644
FilePerm_0644 == 6 * 64 + 4 * 8 + 4

\* os.Mkdir(..., 0770)
DirPerm == 7 * 64 + 7 * 8
\* ioutil.WriteFile(..., 0640)
FilePerm == 6 * 64 + 4 * 8

(***************************************************************************)
(* File system entries.  kind "loop" is a symbolic link that does not      *)
(* resolve (stat fails on it although the name is taken).                  *)
(***************************************************************************)
NoEntry == [kind |-> "none", perm |-> 0, data |-> <<>>]
DirEntry(perm) == [kind |-> "dir", perm |-> perm, data |-> <<>>]
FileEntry(perm, data) == [kind |-> "file", perm |-> perm, data |-> data]
LoopEntry == [kind |-> "loop", perm |-> AllPermBits, data |-> <<>>]

ParentIsDir(f, p) == Len(p) = 1 \/ f[Parent(p)].kind = "dir"

\* os.Stat(path): TRUE when it returns err == nil
Stat(f, p) == ParentIsDir(f, p) /\ f[p].kind \in {"dir", "file"}

\* os.Mkdir(path, perm): the possible outcomes; an absent path with a
\* directory above it can still fail (permissions, no space)
Mkdir(f, p, perm, um) ==
    IF f[p].kind # "none" \/ ~ParentIsDir(f, p)
    THEN { [ok |-> FALSE, fs |-> f] }
    ELSE { [ok |-> TRUE, fs |-> [f EXCEPT ![p] = DirEntry(Masked(perm, um))]],
           [ok |-> FALSE, fs |-> f] }

\* ioutil.WriteFile(path, contents, perm): O_WRONLY|O_CREATE|O_TRUNC, then
\* write, then close.  The open can fail; the write can fail after the
\* file was created or truncated, leaving a proper prefix of the contents.
WriteFile(f, p, contents, perm, um) ==
    IF f[p].kind \in {"dir", "loop"} \/ ~ParentIsDir(f, p)
    THEN { [ok |-> FALSE, fs |-> f] }
    ELSE LET newperm == IF f[p].kind = "file" THEN f[p].perm ELSE Masked(perm, um)
         IN  { [ok |-> TRUE, fs |-> [f EXCEPT ![p] = FileEntry(newperm, contents)]],
               [ok |-> FALSE, fs |-> f] }
             \cup
             { [ok |-> FALSE,
                fs |-> [f EXCEPT ![p] = FileEntry(newperm, SubSeq(contents, 1, n))]]
               : n \in 0 .. (Len(contents) - 1) }

\* ioutil.ReadFile(path): the possible outcomes
ReadFile(f, p) ==
    IF f[p].kind # "file" \/ ~ParentIsDir(f, p)
    THEN { [ok |-> FALSE, data |-> <<>>] }
    ELSE { [ok |-> TRUE, data |-> f[p].data], [ok |-> FALSE, data |-> <<>>] }

(***************************************************************************)
(* The public-key record and its wire form (package idemix and             *)
(* proto.Marshal / proto.Unmarshal, outside the sources at hand).  The     *)
(* record has the fields 1..NumFields with default 0; the wire form is a   *)
(* sequence of (tag, value) pairs.                                         *)
(***************************************************************************)
NumFields == 2
Fields == 1 .. NumFields
EmptyRecord == [t \in Fields |-> 0]

\* Marshal: the fields that are not default, in tag order
RECURSIVE MarshalFrom(_, _)
MarshalFrom(r, t) ==
    IF t > NumFields THEN <<>>
    ELSE (IF r[t] = 0 THEN <<>> ELSE <<t, r[t]>>) \o MarshalFrom(r, t + 1)
Marshal(r) == MarshalFrom(r, 1)

\* Unmarshal: reads pair after pair into the record, a later pair
\* overriding an earlier one; a truncated pair or tag 0 is an error,
\* an unknown tag is skipped
RECURSIVE UnmarshalInto(_, _)
UnmarshalInto(b, r) ==
    IF b = <<>> THEN [ok |-> TRUE, rec |-> r]
    ELSE IF Len(b) = 1 \/ b[1] = 0 THEN [ok |-> FALSE, rec |-> EmptyRecord]
    ELSE UnmarshalInto(SubSeq(b, 3, Len(b)),
                       IF b[1] \in Fields THEN [r EXCEPT ![b[1]] = b[2]] ELSE r)
Unmarshal(b) == UnmarshalInto(b, EmptyRecord)

(***************************************************************************)
(* The external generators (package idemixca, outside the sources at hand).*)
(***************************************************************************)
\* the pairs (secret key bytes, serialized public key) GenerateIssuerKey can return
IssuerKeyPairs ==
    { [isk |-> <<10 + i>>, ipk |-> Marshal([t \in Fields |-> IF t = 1 THEN i ELSE 1])]
      : i \in 1 .. NumKeys }

OrgUnits == 0 .. (NumOrgUnits - 1)

\* the bytes GenerateSignerConfig returns for (isAdmin, ou, key)
SignerConfigBytes(isAdmin, ou, key) ==
    <<IF isAdmin THEN 1 ELSE 0, ou>> \o key.isk \o Marshal(key.ipk)

NoKey == [isk |-> <<>>, ipk |-> EmptyRecord]


(***************************************************************************)
(* State.                                                                  *)
(***************************************************************************)
VARIABLES
    fs,        \* the file system: Paths -> entry
    umask,     \* the umask the tool's processes run under
    pc,        \* the statement the running process is at; "none": no process
    cmd,       \* the command of the current (or the last) run
    isAdmin,   \* *genCredIsAdmin
    orgUnit,   \* *genCredOU
    isk,       \* main: isk / readIssuerKey: isk
    ipk,       \* main: ipk / readIssuerKey: ipkBytes
    key,       \* readIssuerKey: key
    config,    \* main: config
    exitCode,  \* exit status of the last run that ended; -1: none ended yet
    err,       \* the error handleError reported in the last run, or "nil"
    ops,       \* history: the statements the current (or the last) run executed
    fs0,       \* history: the file system when the current (or the last) run started
    prev,      \* history: command and exit status of the run before this one
    issued,    \* history: the pair generated by an earlier ca-keygen run that succeeded
    prevErr,   \* history: the error that ended the run before this one, or "nil"
    leftBehind, \* history: the file system an earlier ca-keygen run left when it
               \* failed after creating the issuer root; NothingLeft: no such run
    signed     \* history: the config written by an earlier signerconfig run that
               \* succeeded; <<>>: no such run

vars ==
    << fs, umask, pc, cmd, isAdmin, orgUnit, isk, ipk, key, config,
       exitCode, err, ops, fs0, prev, issued, prevErr, leftBehind, signed >>

Commands == {"ca-keygen", "signerconfig", "version"}

\* umask values of the environment: none, 022, 077
Umasks == {0, 2 * 8 + 2, 7 * 8 + 7}

NoPair == [isk |-> <<>>, ipk |-> <<>>]
NoRun == [cmd |-> "none", exitCode |-> -1]
NothingLeft == [p \in Paths |-> NoEntry]

(***************************************************************************)
(* The file systems a first run can find: any consistent tree over Paths.  *)
(* Entries that the tool did not create have the modes 0755 and 0644.      *)
(***************************************************************************)
PriorDir == DirEntry(7 * 64 + 5 * 8 + 5)
PriorFile(data) == FileEntry(6 * 64 + 4 * 8 + 4, data)

Tree(ca, sk, pk, msp, mpk, user, sc) ==
    [p \in Paths |->
        CASE p = IdemixDirIssuer -> ca
          [] p = PathIssuerSecretKey -> sk
          [] p = PathIssuerPublicKey -> pk
          [] p = IdemixConfigDirMsp -> msp
          [] p = PathMspIssuerPublicKey -> mpk
          [] p = IdemixConfigDirUser -> user
          [] p = PathSignerConfig -> sc]

Consistent(f) == \A p \in Paths : f[p].kind # "none" => ParentIsDir(f, p)

PriorRoots == {NoEntry, PriorDir, PriorFile(<<>>), LoopEntry}

InitialFileSystems ==
    { f \in { Tree(ca, sk, pk, msp, mpk, user, sc) :
                ca \in PriorRoots,
                sk \in {NoEntry, PriorFile(<<9>>)},
                pk \in {NoEntry, PriorFile(<<1, 3>>), PriorFile(<<0>>)},
                msp \in PriorRoots,
                mpk \in {NoEntry, PriorFile(<<1, 3>>)},
                user \in PriorRoots,
                sc \in {NoEntry, PriorFile(<<5>>)} } :
      Consistent(f) }

Init ==
    /\ fs \in InitialFileSystems
    /\ umask \in Umasks
    /\ pc = "none"
    /\ cmd = "none"
    /\ isAdmin = FALSE
    /\ orgUnit = 0
    /\ isk = <<>>
    /\ ipk = <<>>
    /\ key = NoKey
    /\ config = <<>>
    /\ exitCode = -1
    /\ err = "nil"
    /\ ops = <<>>
    /\ fs0 = fs
    /\ prev = NoRun
    /\ issued = NoPair
    /\ prevErr = "nil"
    /\ leftBehind = NothingLeft
    /\ signed = <<>>

(***************************************************************************)
(* Control.                                                                *)
(***************************************************************************)
\* faulty variant: the version case runs into the ca-keygen case
FirstStatement_VersionFallsThrough(c) ==
    CASE c = "ca-keygen" -> "GenerateIssuerKey"
      [] c = "signerconfig" -> "ReadIssuerSecretKey"
      [] c = "version" -> "GenerateIssuerKey"

\* the first statement of each case of main's switch
FirstStatement(c) ==
    CASE c = "ca-keygen" -> "GenerateIssuerKey"
      [] c = "signerconfig" -> "ReadIssuerSecretKey"
      [] c = "version" -> "printVersion"

\* the running process is at statement s and executes it
At(s) == pc = s /\ ops' = Append(ops, s)

Goto(s) == pc' = s /\ UNCHANGED <<exitCode, err>>

\* handleError(err) with err != nil: print, os.Exit(1)
handleError(e) == pc' = "none" /\ exitCode' = 1 /\ err' = e

\* main returns: exit status 0
Return == pc' = "none" /\ exitCode' = 0 /\ err' = "nil"

\* faulty variant: only a not-found error of os.Stat counts as absent
checkDirectoryNotExists_NotExist(path) ==
    ~( /\ fs[path].kind = "none"
       /\ (Len(path) = 1 \/ fs[Parent(path)].kind \in {"none", "dir"}) )

\* faulty variant: only a directory at the path counts as existing
checkDirectoryNotExists_IsDir(path) == Stat(fs, path) /\ fs[path].kind = "dir"

\* checkDirectoryNotExists(path, ...): TRUE when it ends the run
checkDirectoryNotExists(path) == Stat(fs, path)

\* faulty variant: the error of ioutil.WriteFile is dropped
writeFile_Unchecked(path, contents, next) ==
    \E r \in WriteFile(fs, path, contents, FilePerm, umask) :
        /\ fs' = r.fs
        /\ IF next = "" THEN Return ELSE Goto(next)

\* writeFile(path, contents), continuing at statement next ("" : main returns)
writeFile(path, contents, next) ==
    \E r \in WriteFile(fs, path, contents, FilePerm, umask) :
        /\ fs' = r.fs
        /\ IF ~r.ok THEN handleError("WriteFile")
           ELSE IF next = "" THEN Return
           ELSE Goto(next)

\* faulty variant: a failed Mkdir removes what the run created before it
mkdir_Cleanup(path, next) ==
    \E r \in Mkdir(fs, path, DirPerm, umask) :
        IF r.ok THEN fs' = r.fs /\ Goto(next)
        ELSE fs' = fs0 /\ handleError("Mkdir")

\* handleError(os.Mkdir(path, 0770)), continuing at statement next
mkdir(path, next) ==
    \E r \in Mkdir(fs, path, DirPerm, umask) :
        /\ fs' = r.fs
        /\ IF r.ok THEN Goto(next) ELSE handleError("Mkdir")

locals == <<isk, ipk, key, config>>
flags == <<cmd, isAdmin, orgUnit>>
history == <<fs0, prev, issued, prevErr, leftBehind, signed>>

\* a process is started: kingpin parses the command line (lines 47-49)
Start ==
    /\ pc = "none"
    /\ \E c \in Commands, a \in BOOLEAN, u \in OrgUnits :
        /\ c # "signerconfig" => (~a /\ u = 0)
        /\ cmd' = c
        /\ isAdmin' = a
        /\ orgUnit' = u
        /\ pc' = FirstStatement(c)
    /\ isk' = <<>>
    /\ ipk' = <<>>
    /\ key' = NoKey
    /\ config' = <<>>
    /\ exitCode' = -1
    /\ err' = "nil"
    /\ ops' = <<>>
    /\ fs0' = fs
    /\ prev' = [cmd |-> cmd, exitCode |-> exitCode]
    /\ issued' = IF cmd = "ca-keygen" /\ exitCode = 0
                 THEN [isk |-> isk, ipk |-> ipk]
                 ELSE issued
    /\ prevErr' = err
    /\ leftBehind' = IF /\ cmd = "ca-keygen"
                        /\ exitCode = 1
                        /\ fs0[IdemixDirIssuer].kind = "none"
                        /\ fs[IdemixDirIssuer].kind = "dir"
                     THEN fs
                     ELSE leftBehind
    /\ signed' = IF cmd = "signerconfig" /\ exitCode = 0 THEN config ELSE signed
    /\ UNCHANGED <<fs, umask>>

(***************************************************************************)
(* ca-keygen (lines 51-67).                                                *)
(***************************************************************************)
\* faulty variant: the error of GenerateIssuerKey is dropped
GenerateIssuerKey_Unchecked ==
    /\ At("GenerateIssuerKey")
    /\ \/ \E k \in IssuerKeyPairs : isk' = k.isk /\ ipk' = k.ipk
       \/ UNCHANGED <<isk, ipk>>
    /\ Goto("CheckIssuerDir")
    /\ UNCHANGED <<fs, umask, flags, key, config, history>>

\* isk, ipk, err := idemixca.GenerateIssuerKey(); handleError(err)
GenerateIssuerKey ==
    /\ At("GenerateIssuerKey")
    /\ \/ \E k \in IssuerKeyPairs :
            /\ isk' = k.isk
            /\ ipk' = k.ipk
            /\ Goto("CheckIssuerDir")
       \/ /\ handleError("GenerateIssuerKey")
          /\ UNCHANGED <<isk, ipk>>
    /\ UNCHANGED <<fs, umask, flags, key, config, history>>

\* faulty variant: the check of the issuer root is missing
CheckIssuerDir_Skipped ==
    /\ At("CheckIssuerDir")
    /\ Goto("CheckMspDir")
    /\ UNCHANGED <<fs, umask, flags, locals, history>>

\* checkDirectoryNotExists(IdemixDirIssuer, "Directory ca already exists")
CheckIssuerDir ==
    /\ At("CheckIssuerDir")
    /\ IF checkDirectoryNotExists(Join(IdemixDirIssuer, <<>>))
       THEN handleError("AlreadyExists")
       ELSE Goto("CheckMspDir")
    /\ UNCHANGED <<fs, umask, flags, locals, history>>

\* faulty variant: the check of the MSP root is missing
CheckMspDir_Skipped ==
    /\ At("CheckMspDir")
    /\ Goto("MkdirIssuer")
    /\ UNCHANGED <<fs, umask, flags, locals, history>>

\* checkDirectoryNotExists(msp.IdemixConfigDirMsp, "Directory msp already exists")
CheckMspDir ==
    /\ At("CheckMspDir")
    /\ IF checkDirectoryNotExists(IdemixConfigDirMsp)
       THEN handleError("AlreadyExists")
       ELSE Goto("MkdirIssuer")
    /\ UNCHANGED <<fs, umask, flags, locals, history>>

\* handleError(os.Mkdir(IdemixDirIssuer, 0770))
MkdirIssuer ==
    /\ At("MkdirIssuer")
    /\ mkdir(IdemixDirIssuer, "MkdirMsp")
    /\ UNCHANGED <<umask, flags, locals, history>>

\* handleError(os.Mkdir(msp.IdemixConfigDirMsp, 0770))
MkdirMsp ==
    /\ At("MkdirMsp")
    /\ mkdir(IdemixConfigDirMsp, "WriteIssuerSecretKey")
    /\ UNCHANGED <<umask, flags, locals, history>>

\* writeFile(filepath.Join(IdemixDirIssuer, IdemixConfigIssuerSecretKey), isk)
WriteIssuerSecretKey ==
    /\ At("WriteIssuerSecretKey")
    /\ writeFile(Join(IdemixDirIssuer, IdemixConfigIssuerSecretKey), isk,
                 "WriteIssuerPublicKey")
    /\ UNCHANGED <<umask, flags, locals, history>>

\* writeFile(filepath.Join(IdemixDirIssuer, msp.IdemixConfigFileIssuerPublicKey), ipk)
WriteIssuerPublicKey ==
    /\ At("WriteIssuerPublicKey")
    /\ writeFile(Join(IdemixDirIssuer, IdemixConfigFileIssuerPublicKey), ipk,
                 "WriteMspIssuerPublicKey")
    /\ UNCHANGED <<umask, flags, locals, history>>

\* faulty variant: the MSP copy is written from the wrong variable
WriteMspIssuerPublicKey_Secret ==
    /\ At("WriteMspIssuerPublicKey")
    /\ writeFile(Join(IdemixConfigDirMsp, IdemixConfigFileIssuerPublicKey), isk, "")
    /\ UNCHANGED <<umask, flags, locals, history>>

\* writeFile(filepath.Join(msp.IdemixConfigDirMsp, msp.IdemixConfigFileIssuerPublicKey), ipk)
\* and, when it returns, the end of main
WriteMspIssuerPublicKey ==
    /\ At("WriteMspIssuerPublicKey")
    /\ writeFile(Join(IdemixConfigDirMsp, IdemixConfigFileIssuerPublicKey), ipk, "")
    /\ UNCHANGED <<umask, flags, locals, history>>

(***************************************************************************)
(* signerconfig (lines 69-78) with readIssuerKey (lines 94-111).           *)
(***************************************************************************)
\* faulty variant: the secret key is read from the public key's path
ReadIssuerSecretKey_WrongFile ==
    /\ At("ReadIssuerSecretKey")
    /\ \E r \in ReadFile(fs, Join(IdemixDirIssuer, IdemixConfigFileIssuerPublicKey)) :
        IF r.ok
        THEN isk' = r.data /\ Goto("ReadIssuerPublicKey")
        ELSE isk' = isk /\ handleError("OpenIssuerSecretKey")
    /\ UNCHANGED <<fs, umask, flags, ipk, key, config, history>>

\* isk, err := ioutil.ReadFile("ca/IssuerSecretKey"); handleError(Wrapf(err, ...))
ReadIssuerSecretKey ==
    /\ At("ReadIssuerSecretKey")
    /\ \E r \in ReadFile(fs, Join(IdemixDirIssuer, IdemixConfigIssuerSecretKey)) :
        IF r.ok
        THEN isk' = r.data /\ Goto("ReadIssuerPublicKey")
        ELSE isk' = isk /\ handleError("OpenIssuerSecretKey")
    /\ UNCHANGED <<fs, umask, flags, ipk, key, config, history>>

\* faulty variant: the error of reading the public key file is dropped
ReadIssuerPublicKey_Unchecked ==
    /\ At("ReadIssuerPublicKey")
    /\ \E r \in ReadFile(fs, Join(IdemixDirIssuer, IdemixConfigFileIssuerPublicKey)) :
        ipk' = r.data /\ Goto("UnmarshalIssuerPublicKey")
    /\ UNCHANGED <<fs, umask, flags, isk, key, config, history>>

\* ipkBytes, err := ioutil.ReadFile("ca/IssuerPublicKey"); handleError(Wrapf(err, ...))
ReadIssuerPublicKey ==
    /\ At("ReadIssuerPublicKey")
    /\ \E r \in ReadFile(fs, Join(IdemixDirIssuer, IdemixConfigFileIssuerPublicKey)) :
        IF r.ok
        THEN ipk' = r.data /\ Goto("UnmarshalIssuerPublicKey")
        ELSE ipk' = ipk /\ handleError("OpenIssuerPublicKey")
    /\ UNCHANGED <<fs, umask, flags, isk, key, config, history>>

\* faulty variant: the error of proto.Unmarshal is dropped
UnmarshalIssuerPublicKey_Unchecked ==
    /\ At("UnmarshalIssuerPublicKey")
    /\ key' = [isk |-> isk, ipk |-> Unmarshal(ipk).rec]
    /\ Goto("GenerateSignerConfig")
    /\ UNCHANGED <<fs, umask, flags, isk, ipk, config, history>>

\* handleError(proto.Unmarshal(ipkBytes, ipk)); key := &idemix.IssuerKey{isk, ipk}
UnmarshalIssuerPublicKey ==
    /\ At("UnmarshalIssuerPublicKey")
    /\ LET u == Unmarshal(ipk)
       IN  IF u.ok
           THEN key' = [isk |-> isk, ipk |-> u.rec] /\ Goto("GenerateSignerConfig")
           ELSE key' = key /\ handleError("Unmarshal")
    /\ UNCHANGED <<fs, umask, flags, isk, ipk, config, history>>

\* faulty variant: the signer directory is made without being checked
GenerateSignerConfig_NoCheck ==
    /\ At("GenerateSignerConfig")
    /\ \/ /\ config' = SignerConfigBytes(isAdmin, orgUnit, key)
          /\ Goto("MkdirUser")
       \/ /\ config' = config
          /\ handleError("GenerateSignerConfig")
    /\ UNCHANGED <<fs, umask, flags, isk, ipk, key, history>>

\* config, err := idemixca.GenerateSignerConfig(*genCredIsAdmin, *genCredOU, key)
\* handleError(err)
GenerateSignerConfig ==
    /\ At("GenerateSignerConfig")
    /\ \/ /\ config' = SignerConfigBytes(isAdmin, orgUnit, key)
          /\ Goto("CheckUserDir")
       \/ /\ config' = config
          /\ handleError("GenerateSignerConfig")
    /\ UNCHANGED <<fs, umask, flags, isk, ipk, key, history>>

\* faulty variant: the check of the signer directory is missing
CheckUserDir_Skipped ==
    /\ At("CheckUserDir")
    /\ Goto("MkdirUser")
    /\ UNCHANGED <<fs, umask, flags, locals, history>>

\* faulty variant: the check looks at the MSP root instead of the signer directory
CheckUserDir_Msp ==
    /\ At("CheckUserDir")
    /\ IF checkDirectoryNotExists(IdemixConfigDirMsp)
       THEN handleError("AlreadyExists")
       ELSE Goto("MkdirUser")
    /\ UNCHANGED <<fs, umask, flags, locals, history>>

\* checkDirectoryNotExists(msp.IdemixConfigDirUser, "This MSP config already contains ...")
CheckUserDir ==
    /\ At("CheckUserDir")
    /\ IF checkDirectoryNotExists(IdemixConfigDirUser)
       THEN handleError("AlreadyExists")
       ELSE Goto("MkdirUser")
    /\ UNCHANGED <<fs, umask, flags, locals, history>>

\* handleError(os.Mkdir(msp.IdemixConfigDirUser, 0770))
MkdirUser ==
    /\ At("MkdirUser")
    /\ mkdir(IdemixConfigDirUser, "WriteSignerConfig")
    /\ UNCHANGED <<umask, flags, locals, history>>

\* faulty variant: the config is written over the issuer public key
WriteSignerConfig_IssuerDir ==
    /\ At("WriteSignerConfig")
    /\ writeFile(Join(IdemixDirIssuer, IdemixConfigFileIssuerPublicKey), config, "")
    /\ UNCHANGED <<umask, flags, locals, history>>

\* writeFile(filepath.Join(msp.IdemixConfigDirUser, msp.IdemixConfigFileSigner), config)
\* and, when it returns, the end of main
WriteSignerConfig ==
    /\ At("WriteSignerConfig")
    /\ writeFile(Join(IdemixConfigDirUser, IdemixConfigFileSigner), config, "")
    /\ UNCHANGED <<umask, flags, locals, history>>

(***************************************************************************)
(* version (lines 80-87).                                                  *)
(***************************************************************************)
\* fmt.Println(metadata.GetVersionInfo())
printVersion ==
    /\ At("printVersion")
    /\ Return
    /\ UNCHANGED <<fs, umask, flags, locals, history>>

Next ==
    \/ Start
    \/ GenerateIssuerKey
    \/ CheckIssuerDir
    \/ CheckMspDir
    \/ MkdirIssuer
    \/ MkdirMsp
    \/ WriteIssuerSecretKey
    \/ WriteIssuerPublicKey
    \/ WriteMspIssuerPublicKey
    \/ ReadIssuerSecretKey
    \/ ReadIssuerPublicKey
    \/ UnmarshalIssuerPublicKey
    \/ GenerateSignerConfig
    \/ CheckUserDir
    \/ MkdirUser
    \/ WriteSignerConfig
    \/ printVersion

Spec == Init /\ [][Next]_vars

(***************************************************************************)
(* Vocabulary of the properties.                                           *)
(***************************************************************************)
\* a run has ended and no other was started since
Ended == pc = "none" /\ exitCode # -1

In(seq, x) == \E i \in 1 .. Len(seq) : seq[i] = x

MkdirStatements == {"MkdirIssuer", "MkdirMsp", "MkdirUser"}
WriteStatements ==
    {"WriteIssuerSecretKey", "WriteIssuerPublicKey", "WriteMspIssuerPublicKey",
     "WriteSignerConfig"}
ModifyingStatements == MkdirStatements \cup WriteStatements

\* the run has so far left the file system as it found it and has attempted
\* no Mkdir and no write
NothingTouched ==
    /\ fs = fs0
    /\ \A i \in 1 .. Len(ops) : ops[i] \notin ModifyingStatements

IsFile(f, p) == ParentIsDir(f, p) /\ f[p].kind = "file"
IsDir(f, p) == ParentIsDir(f, p) /\ f[p].kind = "dir"

\* the paths that the run created or changed, by kind of the entry now there
FilesWritten == { p \in Paths : fs[p] # fs0[p] /\ fs[p].kind = "file" }
DirsCreated == { p \in Paths : fs[p] # fs0[p] /\ fs[p].kind = "dir" }

(***************************************************************************)
(* C1                                                                      *)
(***************************************************************************)
RootExisted == Stat(fs0, IdemixDirIssuer) \/ Stat(fs0, IdemixConfigDirMsp)

\* in a ca-keygen run, every Mkdir and every write comes after both checks
ChecksBeforeModification ==
    \A i \in 1 .. Len(ops) :
        ops[i] \in ModifyingStatements =>
            /\ \E j \in 1 .. (i - 1) : ops[j] = "CheckIssuerDir"
            /\ \E j \in 1 .. (i - 1) : ops[j] = "CheckMspDir"

\* C1 as stated: a ca-keygen run that finds ca or msp existing touches
\* nothing and ends with exit status 1 and the already-exists error.
C1_Original ==
    (cmd = "ca-keygen" /\ RootExisted) =>
        /\ NothingTouched
        /\ Ended => (exitCode = 1 /\ err = "AlreadyExists")

\* C1, amended: a ca-keygen run that finds ca or msp existing (stat succeeds)
\* creates no directory, writes no file and ends with exit status 1; the
\* error is the already-exists error unless the key generator failed first,
\* and then it is the generator's.  In every ca-keygen run both checks
\* precede the first Mkdir and the first write.
C1_RootExistsNothingTouched ==
    cmd = "ca-keygen" =>
        /\ ChecksBeforeModification
        /\ RootExisted =>
            /\ NothingTouched
            /\ Ended =>
                /\ exitCode = 1
                /\ err = IF ops = <<"GenerateIssuerKey">>
                         THEN "GenerateIssuerKey"
                         ELSE "AlreadyExists"

\* the second check is the one that ends the run
C1_Witness ==
    /\ Ended
    /\ cmd = "ca-keygen"
    /\ ~Stat(fs0, IdemixDirIssuer)
    /\ Stat(fs0, IdemixConfigDirMsp)
    /\ err = "AlreadyExists"
    /\ ops = <<"GenerateIssuerKey", "CheckIssuerDir", "CheckMspDir">>

(***************************************************************************)
(* C2                                                                      *)
(***************************************************************************)
\* C2 as stated, its second half: a signerconfig run that finds the signer
\* directory existing never invokes the signer-config generator.
C2_Original ==
    (cmd = "signerconfig" /\ Stat(fs0, IdemixConfigDirUser)) =>
        ~In(ops, "GenerateSignerConfig")

\* C2, amended: a signerconfig run that finds the signer directory existing
\* creates and changes nothing and ends with exit status 1; it reports the
\* already-exists error exactly when readIssuerKey and the signer-config
\* generator both returned without error: the generator is invoked before
\* the directory is checked.
C2_SignerDirExistsNothingTouched ==
    (cmd = "signerconfig" /\ Stat(fs0, IdemixConfigDirUser)) =>
        /\ NothingTouched
        /\ Ended =>
            /\ exitCode = 1
            /\ err = "AlreadyExists" <=>
                 ops = <<"ReadIssuerSecretKey", "ReadIssuerPublicKey",
                         "UnmarshalIssuerPublicKey", "GenerateSignerConfig",
                         "CheckUserDir">>
            /\ err = "AlreadyExists" =>
                 config = SignerConfigBytes(isAdmin, orgUnit, key)

C2_Witness ==
    /\ Ended
    /\ cmd = "signerconfig"
    /\ Stat(fs0, IdemixConfigDirUser)
    /\ err = "AlreadyExists"
    /\ In(ops, "GenerateSignerConfig")

(***************************************************************************)
(* C3                                                                      *)
(***************************************************************************)
\* C3: a ca-keygen run that ends with exit status 0 has created exactly the
\* three files ca/IssuerSecretKey, ca/IssuerPublicKey and msp/IssuerPublicKey;
\* the two public key files hold the same bytes, the generated public key,
\* and the secret key file holds the generated secret key.
C3_ThreeFiles ==
    (Ended /\ cmd = "ca-keygen" /\ exitCode = 0) =>
        /\ FilesWritten =
             {PathIssuerSecretKey, PathIssuerPublicKey, PathMspIssuerPublicKey}
        /\ \A p \in FilesWritten : fs0[p].kind = "none"
        /\ [isk |-> isk, ipk |-> ipk] \in IssuerKeyPairs
        /\ fs[PathIssuerSecretKey].data = isk
        /\ fs[PathIssuerPublicKey].data = ipk
        /\ fs[PathMspIssuerPublicKey].data = fs[PathIssuerPublicKey].data

C3_Witness ==
    /\ Ended
    /\ cmd = "ca-keygen"
    /\ exitCode = 0
    /\ IsFile(fs, PathIssuerSecretKey)
    /\ IsFile(fs, PathMspIssuerPublicKey)

(***************************************************************************)
(* C4                                                                      *)
(***************************************************************************)
\* readIssuerKey has returned in the current (or the last) run
KeyLoaded == In(ops, "UnmarshalIssuerPublicKey") /\ err # "Unmarshal"

\* C4: in every signerconfig run after a ca-keygen run that succeeded, the
\* key that readIssuerKey returns has the secret bytes generated in that
\* ca-keygen run and a public-key record whose serialized form is the
\* generated public key; deserialization does not fail.
C4_RoundTrip ==
    (cmd = "signerconfig" /\ issued # NoPair) =>
        /\ err # "Unmarshal"
        /\ KeyLoaded =>
            /\ key.isk = issued.isk
            /\ Marshal(key.ipk) = issued.ipk

C4_Witness ==
    /\ cmd = "signerconfig"
    /\ issued # NoPair
    /\ KeyLoaded
    /\ key.isk = issued.isk
    /\ Marshal(key.ipk) = issued.ipk

(***************************************************************************)
(* C5                                                                      *)
(***************************************************************************)
KeyFilesMissing ==
    ~IsFile(fs0, PathIssuerSecretKey) \/ ~IsFile(fs0, PathIssuerPublicKey)

\* C5: a signerconfig run that finds ca/IssuerSecretKey or ca/IssuerPublicKey
\* absent ends with exit status 1 and the failed-to-open error of the first
\* absent file, without invoking the signer-config generator and without
\* creating a directory or a file.
C5_MissingKeyMaterial ==
    (cmd = "signerconfig" /\ KeyFilesMissing) =>
        /\ NothingTouched
        /\ ~In(ops, "GenerateSignerConfig")
        /\ Ended =>
            /\ exitCode = 1
            /\ err \in {"OpenIssuerSecretKey", "OpenIssuerPublicKey"}
            /\ ~IsFile(fs0, PathIssuerSecretKey) => err = "OpenIssuerSecretKey"

\* the secret key is there, the public key is not
C5_Witness ==
    /\ Ended
    /\ cmd = "signerconfig"
    /\ IsFile(fs0, PathIssuerSecretKey)
    /\ ~IsFile(fs0, PathIssuerPublicKey)
    /\ err = "OpenIssuerPublicKey"
    /\ exitCode = 1

(***************************************************************************)
(* C6                                                                      *)
(***************************************************************************)
\* C6 as stated: every ca-keygen run after one that succeeded changes no
\* file and ends with exit status 1 at the check of the issuer root.
C6_Original ==
    (cmd = "ca-keygen" /\ issued # NoPair) =>
        /\ fs = fs0
        /\ Ended =>
            /\ exitCode = 1
            /\ err = "AlreadyExists"
            /\ ops = <<"GenerateIssuerKey", "CheckIssuerDir">>

\* the three key files hold what the successful ca-keygen run generated
KeyFilesAsIssued ==
    /\ IsDir(fs, IdemixDirIssuer)
    /\ IsDir(fs, IdemixConfigDirMsp)
    /\ IsFile(fs, PathIssuerSecretKey)
    /\ IsFile(fs, PathIssuerPublicKey)
    /\ IsFile(fs, PathMspIssuerPublicKey)
    /\ fs[PathIssuerSecretKey].data = issued.isk
    /\ fs[PathIssuerPublicKey].data = issued.ipk
    /\ fs[PathMspIssuerPublicKey].data = issued.ipk

\* C6, amended: every ca-keygen run after one that succeeded ends with exit
\* status 1 and changes nothing: it ends at the check of the issuer root with
\* the already-exists error, or before it when the key generator fails; no
\* root is created again and the three key files keep their contents.
C6_SecondRunFails ==
    (cmd = "ca-keygen" /\ issued # NoPair) =>
        /\ NothingTouched
        /\ KeyFilesAsIssued
        /\ Ended =>
            /\ exitCode = 1
            /\ \/ ops = <<"GenerateIssuerKey">> /\ err = "GenerateIssuerKey"
               \/ /\ ops = <<"GenerateIssuerKey", "CheckIssuerDir">>
                  /\ err = "AlreadyExists"

\* the later run generated another key than the one on disk and left the disk alone
C6_Witness ==
    /\ Ended
    /\ cmd = "ca-keygen"
    /\ issued # NoPair
    /\ err = "AlreadyExists"
    /\ isk # issued.isk
    /\ fs[PathIssuerSecretKey].data = issued.isk

(***************************************************************************)
(* C7                                                                      *)
(***************************************************************************)
\* the run created the entry at p
Created(p) == fs0[p].kind = "none" /\ fs[p].kind # "none"

GroupAndOtherBits == 7 * 8 + 7
OtherBits == 4 + 2 + 1

\* C7 as stated: what the tool creates has the owner's read and write (and,
\* on a directory, search) permission and no permission bit for the group or
\* for others.
C7_Original ==
    \A p \in Paths :
        Created(p) =>
            /\ BitAnd(fs[p].perm, GroupAndOtherBits) = 0
            /\ BitAnd(fs[p].perm, 7 * 64) =
                 (IF fs[p].kind = "dir" THEN 7 * 64 ELSE 6 * 64)

\* C7, amended: every directory the tool creates gets mode 0770 and every
\* file it creates mode 0640, less the bits of the umask: nothing for
\* others, but read, write and search on the directories and read on the
\* files for the group unless the umask takes them away.
C7_Modes ==
    \A p \in Paths :
        Created(p) =>
            /\ fs[p].kind \in {"dir", "file"}
            /\ fs[p].kind = "dir" =>
                 fs[p].perm = BitAnd(7 * 64 + 7 * 8, AllPermBits - umask)
            /\ fs[p].kind = "file" =>
                 fs[p].perm = BitAnd(6 * 64 + 4 * 8, AllPermBits - umask)
            /\ BitAnd(fs[p].perm, OtherBits) = 0

\* a secret key file that the group can read, in a directory the group can write
C7_Witness ==
    /\ Created(PathIssuerSecretKey)
    /\ Created(IdemixDirIssuer)
    /\ fs[PathIssuerSecretKey].perm = 6 * 64 + 4 * 8
    /\ fs[IdemixDirIssuer].perm = 7 * 64 + 7 * 8

(***************************************************************************)
(* C8                                                                      *)
(***************************************************************************)
Paired(f) == IsFile(f, PathIssuerSecretKey) <=> IsFile(f, PathIssuerPublicKey)

\* C8: a run that starts with ca/IssuerSecretKey present exactly when
\* ca/IssuerPublicKey is present ends, however it ends, with the one present
\* exactly when the other is.
C8_Paired == (Ended /\ Paired(fs0)) => Paired(fs)

(***************************************************************************)
(* C9                                                                      *)
(***************************************************************************)
\* the statements of each command, in program order
StatementsOf(c) ==
    CASE c = "ca-keygen" ->
            <<"GenerateIssuerKey", "CheckIssuerDir", "CheckMspDir", "MkdirIssuer",
              "MkdirMsp", "WriteIssuerSecretKey", "WriteIssuerPublicKey",
              "WriteMspIssuerPublicKey">>
      [] c = "signerconfig" ->
            <<"ReadIssuerSecretKey", "ReadIssuerPublicKey",
              "UnmarshalIssuerPublicKey", "GenerateSignerConfig", "CheckUserDir",
              "MkdirUser", "WriteSignerConfig">>
      [] c = "version" -> <<"printVersion">>
      [] OTHER -> <<>>

\* the error that ends a run at statement s
ErrorAt(s) ==
    CASE s \in MkdirStatements -> "Mkdir"
      [] s \in WriteStatements -> "WriteFile"
      [] s \in {"CheckIssuerDir", "CheckMspDir", "CheckUserDir"} -> "AlreadyExists"
      [] s = "ReadIssuerSecretKey" -> "OpenIssuerSecretKey"
      [] s = "ReadIssuerPublicKey" -> "OpenIssuerPublicKey"
      [] s = "UnmarshalIssuerPublicKey" -> "Unmarshal"
      [] OTHER -> s

\* C9: a run executes the statements of its command in order; it ends with
\* exit status 0 only after all of them, with both roots created and the
\* three files holding the generated key (ca-keygen), or the signer
\* directory created and SignerConfig holding the generated config
\* (signerconfig); it ends with exit status 1 at the statement that reported
\* the error, so that no later statement is executed.
C9_NoPartialSuccess ==
    /\ ops = SubSeq(StatementsOf(cmd), 1, Len(ops))
    /\ pc # "none" =>
         (Len(ops) < Len(StatementsOf(cmd)) /\ pc = StatementsOf(cmd)[Len(ops) + 1])
    /\ Ended =>
        /\ exitCode \in {0, 1}
        /\ exitCode = 0 =>
            /\ err = "nil"
            /\ ops = StatementsOf(cmd)
            /\ cmd = "ca-keygen" =>
                /\ DirsCreated = {IdemixDirIssuer, IdemixConfigDirMsp}
                /\ FilesWritten = {PathIssuerSecretKey, PathIssuerPublicKey,
                                   PathMspIssuerPublicKey}
                /\ fs[PathIssuerSecretKey].data = isk
                /\ fs[PathIssuerPublicKey].data = ipk
                /\ fs[PathMspIssuerPublicKey].data = ipk
            /\ cmd = "signerconfig" =>
                /\ DirsCreated = {IdemixConfigDirUser}
                /\ FilesWritten = {PathSignerConfig}
                /\ fs[PathSignerConfig].data = config
                /\ config = SignerConfigBytes(isAdmin, orgUnit, key)
        /\ exitCode = 1 =>
            /\ ops # <<>>
            /\ err = ErrorAt(ops[Len(ops)])

\* a run that failed half way: the issuer root is made, the MSP root is not
C9_Witness ==
    /\ Ended
    /\ exitCode = 1
    /\ cmd = "ca-keygen"
    /\ err = "Mkdir"
    /\ ops[Len(ops)] = "MkdirMsp"
    /\ DirsCreated = {IdemixDirIssuer}

(***************************************************************************)
(* C10                                                                     *)
(***************************************************************************)
AfterKeygen ==
    cmd = "signerconfig" /\ prev = [cmd |-> "ca-keygen", exitCode |-> 0]

\* the signer directory with its one file, as the signer-config generator
\* made it from the flags and the key on disk
SignerConfigWritten ==
    /\ Parent(IdemixConfigDirUser) = IdemixConfigDirMsp
    /\ DirsCreated = {IdemixConfigDirUser}
    /\ FilesWritten = {PathSignerConfig}
    /\ fs[PathSignerConfig].data =
         SignerConfigBytes(isAdmin, orgUnit,
                           [isk |-> issued.isk, ipk |-> Unmarshal(issued.ipk).rec])

\* C10 as stated: a signerconfig run directly after a ca-keygen run that
\* succeeded ends with exit status 0, the signer directory and its
\* SignerConfig written.
C10_Original == (AfterKeygen /\ Ended) => (exitCode = 0 /\ SignerConfigWritten)

\* C10, amended: a signerconfig run directly after a ca-keygen run that
\* succeeded finds both key files, a public key that deserializes and no
\* signer directory, so that it ends with exit status 0 unless a read, the
\* generator, Mkdir or the write reports an error (then with exit status 1);
\* ending with exit status 0 it has created the signer directory under the
\* MSP root with the one file SignerConfig, holding the generator's bytes for
\* the flags and the key on disk.
C10_SignerConfigAfterKeygen ==
    AfterKeygen =>
        /\ pc = "ReadIssuerSecretKey" => IsFile(fs, PathIssuerSecretKey)
        /\ pc = "ReadIssuerPublicKey" => IsFile(fs, PathIssuerPublicKey)
        /\ pc = "UnmarshalIssuerPublicKey" => Unmarshal(ipk).ok
        /\ pc = "CheckUserDir" => ~Stat(fs, IdemixConfigDirUser)
        /\ pc = "MkdirUser" =>
             (fs[IdemixConfigDirUser].kind = "none" /\ IsDir(fs, IdemixConfigDirMsp))
        /\ pc = "WriteSignerConfig" =>
             (IsDir(fs, IdemixConfigDirUser) /\ fs[PathSignerConfig].kind = "none")
        /\ Ended =>
            /\ exitCode = 0 => SignerConfigWritten
            /\ exitCode = 1 =>
                 err \in {"OpenIssuerSecretKey", "OpenIssuerPublicKey",
                          "GenerateSignerConfig", "Mkdir", "WriteFile"}

C10_Witness ==
    /\ AfterKeygen
    /\ Ended
    /\ exitCode = 0
    /\ isAdmin
    /\ orgUnit = 1
    /\ SignerConfigWritten

(***************************************************************************)
(* C11                                                                     *)
(***************************************************************************)
\* C11: a version run executes printVersion and nothing else: no stat, no
\* Mkdir, no read and no write, the file system stays as the run found it,
\* and the run ends with exit status 0.
C11_VersionTouchesNothing ==
    cmd = "version" =>
        /\ fs = fs0
        /\ \A i \in 1 .. Len(ops) : ops[i] = "printVersion"
        /\ pc \in {"none", "printVersion"}
        /\ Ended => (exitCode = 0 /\ err = "nil" /\ ops = <<"printVersion">>)

\* a version run in a directory that holds key material
C11_Witness ==
    /\ Ended
    /\ cmd = "version"
    /\ exitCode = 0
    /\ issued # NoPair
    /\ fs = fs0

(***************************************************************************)
(* C12                                                                     *)
(***************************************************************************)
MaterialStatements ==
    {"GenerateIssuerKey", "ReadIssuerSecretKey", "ReadIssuerPublicKey",
     "UnmarshalIssuerPublicKey", "GenerateSignerConfig"}

\* the directory checks of each command
ChecksOf(c) ==
    CASE c = "ca-keygen" -> {"CheckIssuerDir", "CheckMspDir"}
      [] c = "signerconfig" -> {"CheckUserDir"}
      [] OTHER -> {}

\* every statement of kind later in the run comes after all statements of
\* kind earlier that the command has
Precedes(earlier, later) ==
    \A i \in 1 .. Len(ops) :
        ops[i] \in later =>
            \A s \in earlier : \E j \in 1 .. (i - 1) : ops[j] = s

\* C12 as stated: no key generation, key loading or config generation is
\* executed before all directory checks of the command have passed.
C12_Original == Precedes(ChecksOf(cmd), MaterialStatements)

\* C12, amended: in every run the order is GenerateOrLoadMaterial, then
\* ValidatePreconditions, then Persist: the key is generated (ca-keygen) or
\* loaded and the signer config generated (signerconfig) before the first
\* directory check, and every Mkdir and every write comes after all
\* directory checks of the command.
C12_MaterialThenChecksThenPersist ==
    /\ Precedes(MaterialStatements \cap
                    {StatementsOf(cmd)[i] : i \in 1 .. Len(StatementsOf(cmd))},
                ChecksOf(cmd))
    /\ Precedes(ChecksOf(cmd), ModifyingStatements)

\* a signerconfig run that has passed its check and made the directory
C12_Witness ==
    /\ cmd = "signerconfig"
    /\ pc = "WriteSignerConfig"
    /\ In(ops, "GenerateSignerConfig")
    /\ In(ops, "CheckUserDir")
    /\ In(ops, "MkdirUser")

(***************************************************************************)
(* C13                                                                     *)
(***************************************************************************)
KeyPaths == {PathIssuerSecretKey, PathIssuerPublicKey, PathMspIssuerPublicKey}
SignerPaths == {IdemixConfigDirUser, PathSignerConfig}

\* C13: a file at ca/IssuerSecretKey, ca/IssuerPublicKey or
\* msp/IssuerPublicKey is never changed and never removed by a later step of
\* any run, and a step of a signerconfig run changes nothing outside the
\* signer directory.
C13_KeyFilesImmutable ==
    [][ /\ \A p \in KeyPaths : fs[p].kind = "file" => fs'[p] = fs[p]
        /\ (cmd = "signerconfig" /\ pc # "none") =>
             \A p \in Paths \ SignerPaths : fs'[p] = fs[p] ]_vars

\* a signerconfig run wrote its config next to key files that are as issued
C13_Witness ==
    /\ Ended
    /\ cmd = "signerconfig"
    /\ exitCode = 0
    /\ issued # NoPair
    /\ KeyFilesAsIssued
    /\ FilesWritten = {PathSignerConfig}

(***************************************************************************)
(* C14                                                                     *)
(***************************************************************************)
\* an earlier ca-keygen run failed after it had made the issuer root
FailedKeygenBefore == leftBehind # NothingLeft

\* C14 as stated: after a ca-keygen run that failed with a root created,
\* every later ca-keygen run changes nothing and ends with exit status 1 at
\* the root-absence check.
C14_Original ==
    (cmd = "ca-keygen" /\ FailedKeygenBefore) =>
        /\ NothingTouched
        /\ Ended =>
            /\ exitCode = 1
            /\ err = "AlreadyExists"
            /\ ops = <<"GenerateIssuerKey", "CheckIssuerDir">>

\* what the statements of a ca-keygen run that were passed have created is
\* on disk, also when the run has failed since
CreatedSoFarInPlace ==
    cmd = "ca-keygen" =>
        /\ In(ops, "MkdirMsp") =>
             IsDir(fs, IdemixDirIssuer) /\ Created(IdemixDirIssuer)
        /\ In(ops, "WriteIssuerSecretKey") =>
             IsDir(fs, IdemixConfigDirMsp) /\ Created(IdemixConfigDirMsp)
        /\ In(ops, "WriteIssuerPublicKey") =>
             IsFile(fs, PathIssuerSecretKey) /\ fs[PathIssuerSecretKey].data = isk
        /\ In(ops, "WriteMspIssuerPublicKey") =>
             IsFile(fs, PathIssuerPublicKey) /\ fs[PathIssuerPublicKey].data = ipk

\* C14, amended: a ca-keygen run that fails removes nothing of what it
\* created; what such a run left is never changed afterwards, and every
\* later ca-keygen run creates and writes nothing and ends with exit status 1:
\* at the check of the issuer root with the already-exists error, or before
\* it when the key generator fails.
C14_NoCleanup ==
    /\ CreatedSoFarInPlace
    /\ \A p \in Paths : leftBehind[p].kind # "none" => fs[p] = leftBehind[p]
    /\ (cmd = "ca-keygen" /\ FailedKeygenBefore) =>
        /\ NothingTouched
        /\ Ended =>
            /\ exitCode = 1
            /\ \/ ops = <<"GenerateIssuerKey">> /\ err = "GenerateIssuerKey"
               \/ /\ ops = <<"GenerateIssuerKey", "CheckIssuerDir">>
                  /\ err = "AlreadyExists"

\* a later run ended at the check and left the half-written key material
\* as the failed run left it: a secret key without the public key
C14_Witness ==
    /\ Ended
    /\ cmd = "ca-keygen"
    /\ FailedKeygenBefore
    /\ err = "AlreadyExists"
    /\ IsFile(leftBehind, PathIssuerSecretKey)
    /\ leftBehind[PathIssuerPublicKey].kind = "none"
    /\ fs[PathIssuerPublicKey].kind = "none"
    /\ fs[PathMspIssuerPublicKey].kind = "none"

(***************************************************************************)
(* C15                                                                     *)
(***************************************************************************)
\* both key files are there and the public one does not deserialize
MalformedPublicKeyOnDisk ==
    /\ IsFile(fs0, PathIssuerSecretKey)
    /\ IsFile(fs0, PathIssuerPublicKey)
    /\ ~Unmarshal(fs0[PathIssuerPublicKey].data).ok

\* C15: a signerconfig run over key files of which the public one does not
\* deserialize never invokes the signer-config generator and creates
\* nothing; when it has read both files it ends right after the
\* deserialization with exit status 1 and the malformed-key error.
C15_MalformedPublicKey ==
    (cmd = "signerconfig" /\ MalformedPublicKeyOnDisk) =>
        /\ NothingTouched
        /\ ~In(ops, "GenerateSignerConfig")
        /\ config = <<>>
        /\ key = NoKey
        /\ Ended => exitCode = 1
        /\ In(ops, "UnmarshalIssuerPublicKey") =>
            /\ Ended
            /\ err = "Unmarshal"
            /\ ipk = fs0[PathIssuerPublicKey].data
            /\ ops = <<"ReadIssuerSecretKey", "ReadIssuerPublicKey",
                       "UnmarshalIssuerPublicKey">>

\* both reads succeeded on a public key file cut short, no signer
\* directory in the way
C15_Witness ==
    /\ Ended
    /\ cmd = "signerconfig"
    /\ MalformedPublicKeyOnDisk
    /\ err = "Unmarshal"
    /\ exitCode = 1
    /\ IsDir(fs, IdemixConfigDirMsp)
    /\ fs[IdemixConfigDirUser].kind = "none"

(***************************************************************************)
(* C16                                                                     *)
(***************************************************************************)
\* GenerateIssuerKey was called in this run and returned an error
GeneratorFailed ==
    cmd = "ca-keygen" /\ In(ops, "GenerateIssuerKey") /\ isk = <<>>

\* this ca-keygen run follows one that ended with the generator's error
AfterGeneratorError ==
    /\ cmd = "ca-keygen"
    /\ prev = [cmd |-> "ca-keygen", exitCode |-> 1]
    /\ prevErr = "GenerateIssuerKey"

\* C16: a ca-keygen run whose key generator returns an error ends there
\* with exit status 1, before any check, Mkdir or write, and with the
\* filesystem as it found it; the ca-keygen run after it is not stopped by
\* anything the failed run left: with no root in the way it never ends with
\* the already-exists error, and when it ends with exit status 0 it has
\* made both roots and the three key files.
C16_GeneratorErrorLeavesNothing ==
    /\ GeneratorFailed =>
        /\ Ended
        /\ exitCode = 1
        /\ err = "GenerateIssuerKey"
        /\ ops = <<"GenerateIssuerKey">>
        /\ fs = fs0
    /\ (AfterGeneratorError /\ ~RootExisted) =>
        /\ err # "AlreadyExists"
        /\ (Ended /\ exitCode = 1) => err \in {"GenerateIssuerKey", "Mkdir", "WriteFile"}
        /\ (Ended /\ exitCode = 0) =>
            /\ DirsCreated = {IdemixDirIssuer, IdemixConfigDirMsp}
            /\ FilesWritten = KeyPaths

\* the run after the generator's failure succeeded in the same directory
C16_Witness ==
    /\ Ended
    /\ AfterGeneratorError
    /\ exitCode = 0
    /\ fs0[IdemixDirIssuer].kind = "none"
    /\ fs0[IdemixConfigDirMsp].kind = "none"
    /\ IsFile(fs, PathIssuerSecretKey)
    /\ fs[PathIssuerSecretKey].data = isk

(***************************************************************************)
(* C17                                                                     *)
(***************************************************************************)
\* an earlier signerconfig run ended with exit status 0
SignedBefore == signed # <<>>

\* C17: once a signerconfig run has succeeded, the SignerConfig file keeps
\* the bytes that run wrote, and every later signerconfig run, whatever its
\* org unit and admin flag, attempts no Mkdir and no write and ends with exit
\* status 1; when it gets as far as the check of the signer directory, it
\* ends there with the already-exists error.
C17_OneSignerConfig ==
    SignedBefore =>
        /\ IsFile(fs, PathSignerConfig)
        /\ fs[PathSignerConfig].data = signed
        /\ cmd = "signerconfig" =>
            /\ NothingTouched
            /\ Ended => exitCode = 1
            /\ In(ops, "CheckUserDir") => (Ended /\ err = "AlreadyExists")

\* a later run for other flags generated another config and was stopped at
\* the check; the file holds the first config
C17_Witness ==
    /\ Ended
    /\ cmd = "signerconfig"
    /\ SignedBefore
    /\ err = "AlreadyExists"
    /\ config # <<>>
    /\ config # signed
    /\ fs[PathSignerConfig].data = signed

(***************************************************************************)
(* C18                                                                     *)
(***************************************************************************)
CheckStatements == {"CheckIssuerDir", "CheckMspDir", "CheckUserDir"}

\* the path each check is called with and the statement after it
CheckedPath(s) ==
    CASE s = "CheckIssuerDir" -> IdemixDirIssuer
      [] s = "CheckMspDir" -> IdemixConfigDirMsp
      [] s = "CheckUserDir" -> IdemixConfigDirUser

AfterCheck(s) ==
    CASE s = "CheckIssuerDir" -> "CheckMspDir"
      [] s = "CheckMspDir" -> "MkdirIssuer"
      [] s = "CheckUserDir" -> "MkdirUser"

\* os.Stat on the path returns an error other than not-found
StatFailsOtherwise(f, p) ==
    \/ f[p].kind = "loop"
    \/ Len(p) > 1 /\ f[Parent(p)].kind \in {"file", "loop"}

\* C18: a check that was executed has ended the run, with exit status 1 and
\* the already-exists error, exactly when os.Stat succeeds on its path, be it
\* a directory or a regular file; when os.Stat fails, for whatever reason,
\* the run goes on to the statement after the check.
C18_EndsExactlyWhenStatSucceeds ==
    \A s \in CheckStatements :
        In(ops, s) =>
            IF Stat(fs0, CheckedPath(s))
            THEN /\ Ended
                 /\ exitCode = 1
                 /\ err = "AlreadyExists"
                 /\ ops[Len(ops)] = s
                 /\ fs = fs0
            ELSE /\ err # "AlreadyExists" \/ ops[Len(ops)] # s
                 /\ IF ops[Len(ops)] = s
                    THEN pc = AfterCheck(s)
                    ELSE In(ops, AfterCheck(s))

\* the issuer root is a symbolic link that does not resolve: the checks
\* passed and Mkdir was reached, which failed on the name
C18_Witness ==
    /\ Ended
    /\ cmd = "ca-keygen"
    /\ StatFailsOtherwise(fs0, IdemixDirIssuer)
    /\ In(ops, "CheckIssuerDir")
    /\ ops[Len(ops)] = "MkdirIssuer"
    /\ err = "Mkdir"
    /\ fs = fs0

====
